---------------------------- MODULE Spec2Model ----------------------------
(***************************************************************************)
(* Sensor data logger (prakharmisra2/monit).                               *)
(*                                                                         *)
(* Two programs share one acquisition loop:                                *)
(*   - GUI-test.py: SensorApp, whose start_logging / stop_logging run on   *)
(*     the Tk main thread and whose serial_loop runs on a daemon thread    *)
(*     per accepted start request, all sharing the flag self.running;      *)
(*   - script.py: main(), a single thread stopped by KeyboardInterrupt.    *)
(* The variable prog says which of the two programs a behaviour is of.     *)
(*                                                                         *)
(* Text is modelled as a sequence of one-character strings, a device       *)
(* reply as the sequence of its whitespace-separated tokens.               *)
(***************************************************************************)
EXTENDS Integers, Sequences, FiniteSets, TLC

VARIABLES
    prog,        \* "gui" (GUI-test.py) or "script" (script.py)
    reactor_no,  \* SensorApp.reactor_no, the text of the entry field
    sensor_name, \* SensorApp.sensor_name, the text of the entry field
    running,     \* SensorApp.running
    threads,     \* the acquisition threads ever started, in start order
    tables,      \* the database: table name -> rows, in insertion order
    files,       \* the file system: file name -> lines, in order
    last_start,  \* history: what the latest start request met
    stop_seen    \* history: the threads that were alive at a stop request

vars == <<prog, reactor_no, sensor_name, running, threads, tables, files,
          last_start, stop_seen>>

(***************************************************************************)
(* Bounds of the model.                                                    *)
(***************************************************************************)
\* start requests considered in one behaviour
MaxStarts == 2
\* commands sent, by all threads together, in one behaviour
MaxCmds == 2

(***************************************************************************)
(* Characters and text.                                                    *)
(***************************************************************************)
LowerLetters == {"a", "b", "c", "d", "e", "g", "h", "i", "n", "o", "p", "r", "s", "t", "v"}
UpperLetters == {"B", "H"}
Digits == {"0", "1", "2", "3", "4", "5", "6", "7", "8", "9"}

\* str.isalnum() of one character
IsAlnum(c) == c \in LowerLetters \cup UpperLetters \cup Digits

\* str.lower() of one character
Lower(c) == CASE c = "B" -> "b"
              [] c = "H" -> "h"
              [] OTHER -> c

\* ''.join(c for c in name if c.isalnum() or c == '_').lower()
sanitize_identifier(name) ==
    LET kept == SelectSeq(name, LAMBDA c : IsAlnum(c) \/ c = "_")
    IN  [i \in 1..Len(kept) |-> Lower(kept[i])]

\* f"r{reactor}_{safe_sensor}_sensor_data"
TableName(reactor, safe_sensor) ==
    <<"r">> \o reactor \o <<"_">> \o safe_sensor
        \o <<"_", "s", "e", "n", "s", "o", "r", "_", "d", "a", "t", "a">>

\* f"{table_name}.csv"
CsvFileName(table_name) == table_name \o <<".", "c", "s", "v">>

(***************************************************************************)
(* Optional values: None, or Some(x).                                      *)
(***************************************************************************)
None == <<>>
Some(x) == <<x>>
The(opt) == opt[1]

Last(seq) == seq[Len(seq)]

(***************************************************************************)
(* Device replies.  A reply is the sequence of the items readline()        *)
(* returns: tokens, runs of blanks (SP), the line end (NL), and bytes that *)
(* are not ASCII (BadByte).  Tokens of a line are separated by blanks.     *)
(***************************************************************************)
SP == " "
NL == "\n"
BadByte == "\\xff"
Whitespace == {SP, NL}

\* the tokens float() converts, with their values in units of 10^-6
FloatTable ==
    [t \in {"+00.963", "+031.28", "-0.0057", "-0.0053", "+000031.3"} |->
        CASE t = "+00.963"   -> 963000
          [] t = "+031.28"   -> 31280000
          [] t = "-0.0057"   -> -5700
          [] t = "-0.0053"   -> -5300
          [] t = "+000031.3" -> 31300000]

\* float(tok) does not raise ValueError
IsFloat(tok) == tok \in DOMAIN FloatTable
\* float(tok)
Float(tok) == FloatTable[tok]

\* b'' : nothing arrived within the timeout
TimeoutReply == <<>>
ValidReply7 == <<"A", SP, "+00.963", SP, "+031.28", SP, "-0.0057", SP, "-0.0053",
                 SP, "+000031.3", SP, "Air", NL>>
ShortReply == <<"A", SP, "+00.963", NL>>
NonNumericReply == <<"A", SP, "+00.963", SP, "ERR", SP, "-0.0057", SP, "-0.0053",
                     SP, "+000031.3", NL>>
GarbledReply == <<"A", SP, BadByte, NL>>

\* what readline() may return
RawReplies == {TimeoutReply, ValidReply7, ShortReply, NonNumericReply,
               GarbledReply}

\* bytes.decode('ascii') raises UnicodeDecodeError
DecodeRaises(raw) == \E i \in 1..Len(raw) : raw[i] = BadByte

RECURSIVE LStrip(_)
LStrip(text) ==
    IF text # <<>> /\ Head(text) \in Whitespace THEN LStrip(Tail(text)) ELSE text

RECURSIVE RStrip(_)
RStrip(text) ==
    IF text # <<>> /\ Last(text) \in Whitespace
    THEN RStrip(SubSeq(text, 1, Len(text) - 1))
    ELSE text

\* str.strip()
Strip(text) == RStrip(LStrip(text))

\* str.split()
Split(text) == SelectSeq(text, LAMBDA x : x \notin Whitespace)

\* the dict as it would be with the two tilt tokens taken in the other order
ReadingSwapped(parts) ==
    [command     |-> parts[1],
     pressure    |-> Float(parts[2]),
     temperature |-> Float(parts[3]),
     x           |-> Float(parts[5]),
     y           |-> Float(parts[4]),
     air_value   |-> Float(parts[6]),
     air_status  |-> IF Len(parts) > 6 THEN parts[7] ELSE ""]

\* the dict parse_response builds from the tokens
Reading(parts) ==
    [command     |-> parts[1],
     pressure    |-> Float(parts[2]),
     temperature |-> Float(parts[3]),
     x           |-> Float(parts[4]),
     y           |-> Float(parts[5]),
     air_value   |-> Float(parts[6]),
     air_status  |-> IF Len(parts) > 6 THEN parts[7] ELSE ""]

\* the try block of parse_response, the same in both files: what it returns
\* (None when it falls through the if), or the exception float() raises
ParseTry(response) ==
    LET parts == Split(response)
    IN  IF Len(parts) >= 6
        THEN IF \A i \in 2..6 : IsFloat(parts[i])
             THEN [raised |-> "", value |-> Some(Reading(parts))]
             ELSE [raised |-> "ValueError", value |-> None]
        ELSE [raised |-> "", value |-> None]

\* a call of parse_response as it would be without its except clause
parse_response_call_uncaught(response) == ParseTry(response)

\* a call of GUI-test.py parse_response: except Exception catches whatever
\* the try block raises, and the function falls to return None
parse_response_call(response) ==
    LET r == ParseTry(response)
    IN  IF r.raised # "" THEN [raised |-> "", value |-> None] ELSE r

\* GUI-test.py parse_response: Some(reading) or None
parse_response(response) == parse_response_call(response).value

\* a call of script.py parse_response: except (ValueError, IndexError)
\* returns None, any other exception leaves the function
script_parse_response_call(response) ==
    LET r == ParseTry(response)
    IN  IF r.raised \in {"ValueError", "IndexError"}
        THEN [raised |-> "", value |-> None]
        ELSE r

\* script.py parse_response: Some(reading) or None
script_parse_response(response) == script_parse_response_call(response).value

(***************************************************************************)
(* parse_response on its own: one call on each line of up to MaxTokens     *)
(* tokens, taken from a command or status word and two numbers.            *)
(***************************************************************************)
MaxTokens == 7
ParseTokens == {"A", "+00.963", "-0.0057"}

RECURSIVE JoinTokens(_)
JoinTokens(tokens) ==
    IF Len(tokens) <= 1
    THEN tokens
    ELSE <<Head(tokens), SP>> \o JoinTokens(Tail(tokens))

\* the lines the device may send: tokens separated by a blank, then the
\* line end
ParseLines ==
    {JoinTokens(tokens) \o <<NL>> :
        tokens \in UNION {[1..n -> ParseTokens] : n \in 0..MaxTokens}}

(***************************************************************************)
(* The two sinks.                                                          *)
(***************************************************************************)
\* csv_headers / the header row start_logging writes
CsvHeader == <<"Timestamp", "Command", "Pressure", "Temperature", "X", "Y",
               "Air_Value", "Air_Status">>

\* the row log_to_csv writes: [timestamp, *data.values()]
CsvRow(data) == <<"ts", data.command, data.pressure, data.temperature,
                  data.x, data.y, data.air_value, data.air_status>>

\* the row the INSERT statement adds
DbRow(data) == <<data.command, data.pressure, data.temperature,
                 data.x, data.y, data.air_value, data.air_status>>

\* The database takes the interpolated name as an unquoted identifier: a
\* statement whose name holds any other character is a syntax error.
SqlAccepts(table_name) ==
    \A i \in 1..Len(table_name) : IsAlnum(table_name[i]) \/ table_name[i] = "_"

\* The database folds an unquoted identifier to lower case.
SqlFold(table_name) == [i \in 1..Len(table_name) |-> Lower(table_name[i])]

\* CREATE TABLE IF NOT EXISTS {table_name}
CreateTableIfNotExists(db, table_name) ==
    IF SqlFold(table_name) \in DOMAIN db
    THEN db
    ELSE db @@ (SqlFold(table_name) :> <<>>)

\* what init_database returns: True when the database is reached (db_ok) and
\* executes the statement, False when either raises
init_database(db_ok, table_name) == db_ok /\ SqlAccepts(table_name)

\* what script.py's init_database returns; its statement names a fixed table
script_init_database(db_ok) == db_ok

\* INSERT INTO {table_name} ... VALUES (...)
InsertInto(db, table_name, data) ==
    [db EXCEPT ![SqlFold(table_name)] = Append(@, DbRow(data))]

\* the write as it would be if it put the new row before the lines in the file
AppendRowInFront(fs, filename, row) ==
    IF filename \in DOMAIN fs
    THEN [fs EXCEPT ![filename] = <<row>> \o @]
    ELSE fs @@ (filename :> <<row>>)

\* open(filename, 'a') and writerow: the file is created when missing
AppendRow(fs, filename, row) ==
    IF filename \in DOMAIN fs
    THEN [fs EXCEPT ![filename] = Append(@, row)]
    ELSE fs @@ (filename :> <<row>>)

(***************************************************************************)
(* Acquisition threads.                                                    *)
(*   pc          where the thread is in serial_loop (GUI) or main (script) *)
(*   ser         "unopened" | "open" | "closed"                            *)
(*   raw         the bytes readline() returned in this iteration           *)
(*   data        what parse_response returned in this iteration            *)
(*   db_success  what log_to_database returned in this iteration           *)
(*   sent        commands written to the channel so far                    *)
(*   err         the exception that ended the loop, "" while there is none *)
(*   parsed      replies parse_response turned into a reading so far        *)
(*   db_tries    calls of log_to_database so far                            *)
(*   csv_rows    rows log_to_csv appended so far                            *)
(***************************************************************************)
NewThread(req, table_name, csv_filename, pc, ser) ==
    [req |-> req, table_name |-> table_name, csv_filename |-> csv_filename,
     pc |-> pc, ser |-> ser, raw |-> None, data |-> None,
     db_success |-> None, sent |-> 0, err |-> "",
     parsed |-> 0, db_tries |-> 0, csv_rows |-> 0]

Threads == DOMAIN threads

\* the thread has not left serial_loop / main
Alive(t) == threads[t].pc # "done"

(***************************************************************************)
(* GUI-test.py: what the user may type into the two device fields.         *)
(***************************************************************************)
ReactorInputs == {<<>>, <<"1">>, <<"B">>, <<"1", "-">>}
SensorInputs == {<<>>, <<"p", "H">>, <<"-">>}

\* what a start request met
\*   n            the number of the request (0: none yet)
\*   reactor      the reactor number it carried
\*   sensor       the sensor name it carried
\*   table_name   the name put into its CREATE TABLE statement, if one was built
\*   was_running  self.running when the request came
\*   schema       init_database: "skipped" | "ok" | "failed"
\*   header       the header file: "skipped" | "exists" | "created" | "failed"
\*   thread       the thread started for it, 0 when none was
StartRecord(n, reactor, sensor, table_name, was_running, schema, header, thread) ==
    [n |-> n, reactor |-> reactor, sensor |-> sensor, table_name |-> table_name,
     was_running |-> was_running, schema |-> schema, header |-> header,
     thread |-> thread]

Init ==
    /\ prog \in {"gui", "script"}
    /\ reactor_no = <<>>
    /\ sensor_name = <<>>
    /\ running = FALSE
    /\ threads = <<>>
    /\ tables = <<>>
    /\ files = <<>>
    /\ last_start = StartRecord(0, <<>>, <<>>, None, FALSE, "skipped", "skipped", 0)
    /\ stop_seen = {}

\* The user fills in the two device fields; the model follows the sessions in
\* which the fields are left alone once a run has been started.
TypeDeviceInfo(reactor, sensor) ==
    /\ prog = "gui"
    /\ threads = <<>>
    /\ reactor_no' = reactor
    /\ sensor_name' = sensor
    /\ UNCHANGED <<prog, running, threads, tables, files, last_start, stop_seen>>

\* start_logging as it would be with the result of init_database ignored
start_logging_ignoring_init_failure(db_ok, file_ok) ==
    /\ prog = "gui"
    /\ last_start.n < MaxStarts
    /\ ~running
    /\ reactor_no # <<>> /\ sensor_name # <<>>
    /\ UNCHANGED <<prog, reactor_no, sensor_name, stop_seen>>
    /\ LET n == last_start.n + 1
           table_name == TableName(reactor_no, sanitize_identifier(sensor_name))
           csv_filename == CsvFileName(table_name)
           created == init_database(db_ok, table_name)
       IN  /\ tables' = IF created
                        THEN CreateTableIfNotExists(tables, table_name)
                        ELSE tables
           /\ files' = IF csv_filename \in DOMAIN files
                       THEN files
                       ELSE files @@ (csv_filename :> <<CsvHeader>>)
           /\ running' = TRUE
           /\ threads' = Append(threads,
                  NewThread(n, table_name, csv_filename, "open", "unopened"))
           /\ last_start' = StartRecord(n, reactor_no, sensor_name, Some(table_name),
                  FALSE, IF created THEN "ok" ELSE "failed",
                  IF csv_filename \in DOMAIN files THEN "exists" ELSE "created",
                  Len(threads) + 1)

\* start_logging as it would be without the test of the two fields
start_logging_without_field_check(db_ok, file_ok) ==
    /\ prog = "gui"
    /\ last_start.n < MaxStarts
    /\ ~running
    /\ UNCHANGED <<prog, reactor_no, sensor_name, stop_seen>>
    /\ LET n == last_start.n + 1
           table_name == TableName(reactor_no, sanitize_identifier(sensor_name))
           csv_filename == CsvFileName(table_name)
       IN  /\ init_database(db_ok, table_name)
           /\ csv_filename \in DOMAIN files \/ file_ok
           /\ tables' = CreateTableIfNotExists(tables, table_name)
           /\ files' = IF csv_filename \in DOMAIN files
                       THEN files
                       ELSE files @@ (csv_filename :> <<CsvHeader>>)
           /\ running' = TRUE
           /\ threads' = Append(threads,
                  NewThread(n, table_name, csv_filename, "open", "unopened"))
           /\ last_start' = StartRecord(n, reactor_no, sensor_name, Some(table_name),
                  FALSE, "ok",
                  IF csv_filename \in DOMAIN files THEN "exists" ELSE "created",
                  Len(threads) + 1)

\* start_logging as it would be if it opened the file with 'w' and wrote the
\* header at every start
start_logging_rewriting_header(db_ok, file_ok) ==
    /\ prog = "gui"
    /\ last_start.n < MaxStarts
    /\ UNCHANGED <<prog, reactor_no, sensor_name, stop_seen>>
    /\ LET n == last_start.n + 1
       IN
       IF running
       THEN /\ last_start' = StartRecord(n, reactor_no, sensor_name, None, TRUE,
                                       "skipped", "skipped", 0)
            /\ UNCHANGED <<running, threads, tables, files>>
       ELSE IF reactor_no = <<>> \/ sensor_name = <<>>
       THEN /\ last_start' = StartRecord(n, reactor_no, sensor_name, None, FALSE,
                                       "skipped", "skipped", 0)
            /\ UNCHANGED <<running, threads, tables, files>>
       ELSE LET safe_sensor == sanitize_identifier(sensor_name)
                table_name == TableName(reactor_no, safe_sensor)
                csv_filename == CsvFileName(table_name)
            IN  IF ~init_database(db_ok, table_name)
                THEN \* init_database returned False
                     /\ last_start' = StartRecord(n, reactor_no, sensor_name, Some(table_name),
                                                FALSE, "failed", "skipped", 0)
                     /\ UNCHANGED <<running, threads, tables, files>>
                ELSE IF csv_filename \notin DOMAIN files /\ ~file_ok
                THEN \* open(csv_filename, 'w') raised out of the handler
                     /\ tables' = CreateTableIfNotExists(tables, table_name)
                     /\ last_start' = StartRecord(n, reactor_no, sensor_name, Some(table_name),
                                                FALSE, "ok", "failed", 0)
                     /\ UNCHANGED <<running, threads, files>>
                ELSE /\ tables' = CreateTableIfNotExists(tables, table_name)
                     /\ files' = [f \in DOMAIN files \cup {csv_filename} |->
                                    IF f = csv_filename THEN <<CsvHeader>> ELSE files[f]]
                     /\ running' = TRUE
                     /\ threads' = Append(threads,
                            NewThread(n, table_name, csv_filename, "open", "unopened"))
                     /\ last_start' = StartRecord(n, reactor_no, sensor_name, Some(table_name),
                            FALSE, "ok",
                            IF csv_filename \in DOMAIN files THEN "exists" ELSE "created",
                            Len(threads) + 1)

\* start_logging as it would be without the test of self.running
start_logging_without_running_check(db_ok, file_ok) ==
    /\ prog = "gui"
    /\ last_start.n < MaxStarts
    /\ UNCHANGED <<prog, reactor_no, sensor_name, stop_seen>>
    /\ LET n == last_start.n + 1
       IN
       IF reactor_no = <<>> \/ sensor_name = <<>>
       THEN /\ last_start' = StartRecord(n, reactor_no, sensor_name, None, FALSE,
                                       "skipped", "skipped", 0)
            /\ UNCHANGED <<running, threads, tables, files>>
       ELSE LET safe_sensor == sanitize_identifier(sensor_name)
                table_name == TableName(reactor_no, safe_sensor)
                csv_filename == CsvFileName(table_name)
            IN  IF ~init_database(db_ok, table_name)
                THEN \* init_database returned False
                     /\ last_start' = StartRecord(n, reactor_no, sensor_name, Some(table_name),
                                                FALSE, "failed", "skipped", 0)
                     /\ UNCHANGED <<running, threads, tables, files>>
                ELSE IF csv_filename \notin DOMAIN files /\ ~file_ok
                THEN \* open(csv_filename, 'w') raised out of the handler
                     /\ tables' = CreateTableIfNotExists(tables, table_name)
                     /\ last_start' = StartRecord(n, reactor_no, sensor_name, Some(table_name),
                                                FALSE, "ok", "failed", 0)
                     /\ UNCHANGED <<running, threads, files>>
                ELSE /\ tables' = CreateTableIfNotExists(tables, table_name)
                     /\ files' = IF csv_filename \in DOMAIN files
                                 THEN files
                                 ELSE files @@ (csv_filename :> <<CsvHeader>>)
                     /\ running' = TRUE
                     /\ threads' = Append(threads,
                            NewThread(n, table_name, csv_filename, "open", "unopened"))
                     /\ last_start' = StartRecord(n, reactor_no, sensor_name, Some(table_name),
                            FALSE, "ok",
                            IF csv_filename \in DOMAIN files THEN "exists" ELSE "created",
                            Len(threads) + 1)

\* SensorApp.start_logging.  db_ok: the database can be reached and executes a
\* well-formed statement; file_ok: the header file can be created.
start_logging(db_ok, file_ok) ==
    /\ prog = "gui"
    /\ last_start.n < MaxStarts
    /\ UNCHANGED <<prog, reactor_no, sensor_name, stop_seen>>
    /\ LET n == last_start.n + 1
       IN
       IF running
       THEN /\ last_start' = StartRecord(n, reactor_no, sensor_name, None, TRUE,
                                       "skipped", "skipped", 0)
            /\ UNCHANGED <<running, threads, tables, files>>
       ELSE IF reactor_no = <<>> \/ sensor_name = <<>>
       THEN /\ last_start' = StartRecord(n, reactor_no, sensor_name, None, FALSE,
                                       "skipped", "skipped", 0)
            /\ UNCHANGED <<running, threads, tables, files>>
       ELSE LET safe_sensor == sanitize_identifier(sensor_name)
                table_name == TableName(reactor_no, safe_sensor)
                csv_filename == CsvFileName(table_name)
            IN  IF ~init_database(db_ok, table_name)
                THEN \* init_database returned False
                     /\ last_start' = StartRecord(n, reactor_no, sensor_name, Some(table_name),
                                                FALSE, "failed", "skipped", 0)
                     /\ UNCHANGED <<running, threads, tables, files>>
                ELSE IF csv_filename \notin DOMAIN files /\ ~file_ok
                THEN \* open(csv_filename, 'w') raised out of the handler
                     /\ tables' = CreateTableIfNotExists(tables, table_name)
                     /\ last_start' = StartRecord(n, reactor_no, sensor_name, Some(table_name),
                                                FALSE, "ok", "failed", 0)
                     /\ UNCHANGED <<running, threads, files>>
                ELSE /\ tables' = CreateTableIfNotExists(tables, table_name)
                     /\ files' = IF csv_filename \in DOMAIN files
                                 THEN files
                                 ELSE files @@ (csv_filename :> <<CsvHeader>>)
                     /\ running' = TRUE
                     /\ threads' = Append(threads,
                            NewThread(n, table_name, csv_filename, "open", "unopened"))
                     /\ last_start' = StartRecord(n, reactor_no, sensor_name, Some(table_name),
                            FALSE, "ok",
                            IF csv_filename \in DOMAIN files THEN "exists" ELSE "created",
                            Len(threads) + 1)

\* SensorApp.stop_logging, on the user's request
stop_logging ==
    /\ prog = "gui"
    /\ running' = FALSE
    /\ stop_seen' = stop_seen \cup {t \in Threads : Alive(t)}
    /\ UNCHANGED <<prog, reactor_no, sensor_name, threads, tables, files, last_start>>

(***************************************************************************)
(* GUI-test.py: SensorApp.serial_loop.  A step of a thread runs up to and  *)
(* including its next access to what it shares with the main thread and    *)
(* the other threads: self.running, the database, the files.               *)
(*   "open"  before serial.Serial(...)                                     *)
(*   "loop"  at the test of `while self.running` (after the sleep)         *)
(*   "read"  command written, before readline()                            *)
(*   "db"    reading parsed, before log_to_database                        *)
(*   "csv"   before log_to_csv                                             *)
(*   "done"  serial_loop has returned                                      *)
(***************************************************************************)
GuiThread(t) == prog = "gui" /\ t \in Threads

\* the commands sent so far by all threads
RECURSIVE SentBy(_)
SentBy(n) == IF n = 0 THEN 0 ELSE threads[n].sent + SentBy(n - 1)
TotalSent == SentBy(Len(threads))

\* the except branch as it would be without the call of stop_logging
ExceptWithoutStop(t, e) ==
    /\ threads' = [threads EXCEPT ![t].pc = "done", ![t].err = e]
    /\ UNCHANGED running

\* except Exception as e: messagebox.showerror(...); self.stop_logging()
Except(t, e) ==
    /\ threads' = [threads EXCEPT ![t].pc = "done", ![t].err = e]
    /\ running' = FALSE

\* ser = serial.Serial(...): the port opens, or the constructor raises
SerialOpen(t, ok) ==
    /\ GuiThread(t)
    /\ threads[t].pc = "open"
    /\ IF ok
       THEN /\ threads' = [threads EXCEPT ![t].pc = "loop", ![t].ser = "open"]
            /\ UNCHANGED running
       ELSE Except(t, "SerialException")
    /\ UNCHANGED <<prog, reactor_no, sensor_name, tables, files, last_start, stop_seen>>

\* an iteration begins: the command is sent, the locals of the iteration
\* before are dead
BeginIteration(th) ==
    [th EXCEPT !.pc = "read", !.sent = @ + 1, !.raw = None, !.data = None,
               !.db_success = None]

\* while self.running: ser.write(command.encode('ascii')); time.sleep(0.1)
\* and, once the flag is found cleared, ser.close()
Loop(t, ok) ==
    /\ GuiThread(t)
    /\ threads[t].pc = "loop"
    /\ IF running
       THEN /\ TotalSent < MaxCmds
            /\ IF ok
               THEN /\ threads' = [threads EXCEPT ![t] = BeginIteration(@)]
                    /\ UNCHANGED running
               ELSE Except(t, "SerialException")
       ELSE /\ threads' = [threads EXCEPT ![t].pc = "done", ![t].ser = "closed"]
            /\ UNCHANGED running
    /\ UNCHANGED <<prog, reactor_no, sensor_name, tables, files, last_start, stop_seen>>

\* the thread after readline() returned raw, decode and strip went through
\* and parse_response returned data
AfterRead(th, raw, data) ==
    [th EXCEPT !.raw = Some(raw), !.data = data,
               !.pc = IF data # None THEN "db" ELSE "loop",
               !.parsed = IF data # None THEN @ + 1 ELSE @]

\* the read step as it would be with a timeout treated as a fault
ReadAndParseTimeoutFatal(t, io_ok, raw) ==
    /\ GuiThread(t)
    /\ threads[t].pc = "read"
    /\ IF ~io_ok
       THEN Except(t, "SerialException")
       ELSE IF DecodeRaises(raw) \/ raw = TimeoutReply
       THEN /\ threads' = [threads EXCEPT ![t].pc = "done", ![t].raw = Some(raw),
                                          ![t].err = "UnicodeDecodeError"]
            /\ running' = FALSE
       ELSE IF parse_response_call(Strip(raw)).raised # ""
       THEN \* parse_response raised into the try block of serial_loop
            /\ threads' = [threads EXCEPT ![t].pc = "done", ![t].raw = Some(raw),
                                          ![t].err = parse_response_call(Strip(raw)).raised]
            /\ running' = FALSE
       ELSE /\ threads' = [threads EXCEPT
                             ![t] = AfterRead(@, raw, parse_response(Strip(raw)))]
            /\ UNCHANGED running
    /\ UNCHANGED <<prog, reactor_no, sensor_name, tables, files, last_start, stop_seen>>

\* response = ser.readline().decode('ascii').strip()
\* data = parse_response(response); if data: ... ; time.sleep(5)
\* readline returns the line, or nothing at the timeout, or raises
ReadAndParse(t, io_ok, raw) ==
    /\ GuiThread(t)
    /\ threads[t].pc = "read"
    /\ IF ~io_ok
       THEN Except(t, "SerialException")
       ELSE IF DecodeRaises(raw)
       THEN /\ threads' = [threads EXCEPT ![t].pc = "done", ![t].raw = Some(raw),
                                          ![t].err = "UnicodeDecodeError"]
            /\ running' = FALSE
       ELSE IF parse_response_call(Strip(raw)).raised # ""
       THEN \* parse_response raised into the try block of serial_loop
            /\ threads' = [threads EXCEPT ![t].pc = "done", ![t].raw = Some(raw),
                                          ![t].err = parse_response_call(Strip(raw)).raised]
            /\ running' = FALSE
       ELSE /\ threads' = [threads EXCEPT
                             ![t] = AfterRead(@, raw, parse_response(Strip(raw)))]
            /\ UNCHANGED running
    /\ UNCHANGED <<prog, reactor_no, sensor_name, tables, files, last_start, stop_seen>>

\* log_to_database as it would be without its try/except
log_to_database_raising(t, ok) ==
    /\ GuiThread(t)
    /\ threads[t].pc = "db"
    /\ IF ok /\ SqlFold(threads[t].table_name) \in DOMAIN tables
       THEN /\ tables' = InsertInto(tables, threads[t].table_name, The(threads[t].data))
            /\ threads' = [threads EXCEPT ![t].pc = "csv", ![t].db_success = Some(TRUE),
                                          ![t].db_tries = @ + 1]
            /\ UNCHANGED running
       ELSE /\ tables' = tables
            /\ Except(t, "OperationalError")
    /\ UNCHANGED <<prog, reactor_no, sensor_name, files, last_start, stop_seen>>

\* log_to_database as it would be if a failed insert were tried again
log_to_database_retrying(t, ok) ==
    /\ GuiThread(t)
    /\ threads[t].pc = "db"
    /\ IF ok /\ SqlFold(threads[t].table_name) \in DOMAIN tables
       THEN /\ tables' = InsertInto(tables, threads[t].table_name, The(threads[t].data))
            /\ threads' = [threads EXCEPT ![t].pc = "csv", ![t].db_success = Some(TRUE),
                                          ![t].db_tries = @ + 1]
       ELSE /\ tables' = tables
            /\ threads[t].db_tries < MaxCmds + 1
            /\ threads' = [threads EXCEPT ![t].db_success = Some(FALSE),
                                          ![t].db_tries = @ + 1]
    /\ UNCHANGED <<prog, reactor_no, sensor_name, running, files, last_start, stop_seen>>

\* log_to_database(data, db_config, table_name): the row is inserted and True
\* returned, or the exception is caught and False returned
log_to_database(t, ok) ==
    /\ GuiThread(t)
    /\ threads[t].pc = "db"
    /\ IF ok /\ SqlFold(threads[t].table_name) \in DOMAIN tables
       THEN /\ tables' = InsertInto(tables, threads[t].table_name, The(threads[t].data))
            /\ threads' = [threads EXCEPT ![t].pc = "csv", ![t].db_success = Some(TRUE),
                                          ![t].db_tries = @ + 1]
       ELSE /\ tables' = tables
            /\ threads' = [threads EXCEPT ![t].pc = "csv", ![t].db_success = Some(FALSE),
                                          ![t].db_tries = @ + 1]
    /\ UNCHANGED <<prog, reactor_no, sensor_name, running, files, last_start, stop_seen>>

\* log_to_csv as it would be without its try/except
log_to_csv_raising(t, ok) ==
    /\ GuiThread(t)
    /\ threads[t].pc = "csv"
    /\ IF ok
       THEN /\ files' = AppendRow(files, threads[t].csv_filename,
                                  CsvRow(The(threads[t].data)))
            /\ threads' = [threads EXCEPT ![t].pc = "loop", ![t].csv_rows = @ + 1]
            /\ UNCHANGED running
       ELSE /\ files' = files
            /\ Except(t, "OSError")
    /\ UNCHANGED <<prog, reactor_no, sensor_name, tables, last_start, stop_seen>>

\* log_to_csv(data, csv_filename); time.sleep(5): the row is appended, or the
\* exception is caught and reported
log_to_csv(t, ok) ==
    /\ GuiThread(t)
    /\ threads[t].pc = "csv"
    /\ files' = IF ok
                THEN AppendRow(files, threads[t].csv_filename, CsvRow(The(threads[t].data)))
                ELSE files
    /\ threads' = [threads EXCEPT ![t].pc = "loop",
                                  ![t].csv_rows = IF ok THEN @ + 1 ELSE @]
    /\ UNCHANGED <<prog, reactor_no, sensor_name, running, tables, last_start, stop_seen>>

GuiNext ==
    \/ \E reactor \in ReactorInputs, sensor \in SensorInputs :
            TypeDeviceInfo(reactor, sensor)
    \/ \E db_ok, file_ok \in BOOLEAN : start_logging(db_ok, file_ok)
    \/ stop_logging
    \/ \E t \in Threads, ok \in BOOLEAN : SerialOpen(t, ok)
    \/ \E t \in Threads, ok \in BOOLEAN : Loop(t, ok)
    \/ \E t \in Threads, io_ok \in BOOLEAN, raw \in RawReplies : ReadAndParse(t, io_ok, raw)
    \/ \E t \in Threads, ok \in BOOLEAN : log_to_database(t, ok)
    \/ \E t \in Threads, ok \in BOOLEAN : log_to_csv(t, ok)

(***************************************************************************)
(* script.py: the module opens the port when it is loaded; main() checks   *)
(* the database and the header file and then polls in `while True` until   *)
(* an exception or Ctrl+C, with ser.close() in its finally clause.  The    *)
(* main thread is threads[1], with the same places as a GUI thread.        *)
(***************************************************************************)
\* the table script.py names in its statements
ScriptTableName ==
    <<"s", "e", "n", "s", "o", "r", "_", "r", "e", "a", "d", "i", "n", "g", "s">>

\* f"sensor_data_{datetime.now().strftime('%Y%m%d_%H%M%S')}.csv", for one
\* moment of loading
ScriptCsvFileName ==
    <<"s", "e", "n", "s", "o", "r", "_", "d", "a", "t", "a", "_">>
        \o <<"2", "0", "2", "5", "0", "1", "0", "1", "_", "0", "0", "0", "0", "0", "0">>
        \o <<".", "c", "s", "v">>

MainThread(t) == prog = "script" /\ t \in Threads

\* ser = serial.Serial(...) at load, then main() up to its loop
ScriptStart(open_ok, db_ok, file_ok) ==
    /\ prog = "script"
    /\ last_start.n = 0
    /\ UNCHANGED <<prog, reactor_no, sensor_name, running, stop_seen>>
    /\ IF ~open_ok
       THEN \* the module raised while loading: main() is never called
            /\ last_start' = StartRecord(1, <<>>, <<>>, None, FALSE, "skipped", "skipped", 0)
            /\ UNCHANGED <<threads, tables, files>>
       ELSE IF ~script_init_database(db_ok)
       THEN \* init_database returned False: main returns
            /\ last_start' = StartRecord(1, <<>>, <<>>, Some(ScriptTableName), FALSE,
                                      "failed", "skipped", 0)
            /\ UNCHANGED <<threads, tables, files>>
       ELSE IF ScriptCsvFileName \notin DOMAIN files /\ ~file_ok
       THEN \* open(csv_filename, 'w') raised out of main
            /\ tables' = CreateTableIfNotExists(tables, ScriptTableName)
            /\ last_start' = StartRecord(1, <<>>, <<>>, Some(ScriptTableName), FALSE,
                                      "ok", "failed", 0)
            /\ UNCHANGED <<threads, files>>
       ELSE /\ tables' = CreateTableIfNotExists(tables, ScriptTableName)
            /\ files' = IF ScriptCsvFileName \in DOMAIN files
                        THEN files
                        ELSE files @@ (ScriptCsvFileName :> <<CsvHeader>>)
            /\ threads' = Append(threads,
                    NewThread(1, ScriptTableName, ScriptCsvFileName, "loop", "open"))
            /\ last_start' = StartRecord(1, <<>>, <<>>, Some(ScriptTableName), FALSE, "ok",
                    IF ScriptCsvFileName \in DOMAIN files THEN "exists" ELSE "created", 1)

\* except ...: print(...); finally: ser.close()
Finally(t, e) ==
    threads' = [threads EXCEPT ![t].pc = "done", ![t].err = e, ![t].ser = "closed"]

\* while True: ser.write(command.encode('ascii')); time.sleep(0.1)
MainLoop(t, ok) ==
    /\ MainThread(t)
    /\ threads[t].pc = "loop"
    /\ TotalSent < MaxCmds
    /\ IF ok
       THEN threads' = [threads EXCEPT ![t] = BeginIteration(@)]
       ELSE Finally(t, "SerialException")
    /\ UNCHANGED <<prog, reactor_no, sensor_name, running, tables, files, last_start, stop_seen>>

\* response = ser.readline().decode('ascii').strip()
\* parsed_data = parse_response(response); if parsed_data: ... else: ...
MainReadAndParse(t, io_ok, raw) ==
    /\ MainThread(t)
    /\ threads[t].pc = "read"
    /\ IF ~io_ok
       THEN Finally(t, "SerialException")
       ELSE IF DecodeRaises(raw)
       THEN threads' = [threads EXCEPT ![t].pc = "done", ![t].raw = Some(raw),
                            ![t].err = "UnicodeDecodeError", ![t].ser = "closed"]
       ELSE IF script_parse_response_call(Strip(raw)).raised # ""
       THEN \* parse_response raised into the try block of main
            threads' = [threads EXCEPT ![t].pc = "done", ![t].raw = Some(raw),
                            ![t].err = script_parse_response_call(Strip(raw)).raised,
                            ![t].ser = "closed"]
       ELSE threads' = [threads EXCEPT
                           ![t] = AfterRead(@, raw, script_parse_response(Strip(raw)))]
    /\ UNCHANGED <<prog, reactor_no, sensor_name, running, tables, files, last_start, stop_seen>>

\* db_success = log_to_database(parsed_data)
script_log_to_database(t, ok) ==
    /\ MainThread(t)
    /\ threads[t].pc = "db"
    /\ IF ok /\ SqlFold(ScriptTableName) \in DOMAIN tables
       THEN /\ tables' = InsertInto(tables, ScriptTableName, The(threads[t].data))
            /\ threads' = [threads EXCEPT ![t].pc = "csv", ![t].db_success = Some(TRUE),
                                          ![t].db_tries = @ + 1]
       ELSE /\ tables' = tables
            /\ threads' = [threads EXCEPT ![t].pc = "csv", ![t].db_success = Some(FALSE),
                                          ![t].db_tries = @ + 1]
    /\ UNCHANGED <<prog, reactor_no, sensor_name, running, files, last_start, stop_seen>>

\* log_to_csv(parsed_data, csv_filename); ...; time.sleep(5)
script_log_to_csv(t, ok) ==
    /\ MainThread(t)
    /\ threads[t].pc = "csv"
    /\ files' = IF ok
                THEN AppendRow(files, ScriptCsvFileName, CsvRow(The(threads[t].data)))
                ELSE files
    /\ threads' = [threads EXCEPT ![t].pc = "loop",
                                  ![t].csv_rows = IF ok THEN @ + 1 ELSE @]
    /\ UNCHANGED <<prog, reactor_no, sensor_name, running, tables, last_start, stop_seen>>

\* except KeyboardInterrupt: Ctrl+C, wherever the loop is
MainInterrupt(t) ==
    /\ MainThread(t)
    /\ Alive(t)
    /\ Finally(t, "KeyboardInterrupt")
    /\ stop_seen' = stop_seen \cup {t}
    /\ UNCHANGED <<prog, reactor_no, sensor_name, running, tables, files, last_start>>

ScriptNext ==
    \/ \E open_ok, db_ok, file_ok \in BOOLEAN : ScriptStart(open_ok, db_ok, file_ok)
    \/ \E t \in Threads, ok \in BOOLEAN : MainLoop(t, ok)
    \/ \E t \in Threads, io_ok \in BOOLEAN, raw \in RawReplies : MainReadAndParse(t, io_ok, raw)
    \/ \E t \in Threads, ok \in BOOLEAN : script_log_to_database(t, ok)
    \/ \E t \in Threads, ok \in BOOLEAN : script_log_to_csv(t, ok)
    \/ \E t \in Threads : MainInterrupt(t)

Next == GuiNext \/ ScriptNext

Spec == Init /\ [][Next]_vars

(***************************************************************************)
(* The read step on its own: a thread that has sent its command reads one  *)
(* line of ParseLines and hands it to parse_response.                      *)
(***************************************************************************)
ParseInit ==
    /\ prog \in {"gui", "script"}
    /\ reactor_no = IF prog = "gui" THEN <<"1">> ELSE <<>>
    /\ sensor_name = IF prog = "gui" THEN <<"p", "H">> ELSE <<>>
    /\ running = (prog = "gui")
    /\ stop_seen = {}
    /\ LET table_name == IF prog = "gui"
                         THEN TableName(<<"1">>, sanitize_identifier(<<"p", "H">>))
                         ELSE ScriptTableName
           csv_filename == IF prog = "gui"
                           THEN CsvFileName(table_name)
                           ELSE ScriptCsvFileName
       IN  /\ threads = <<[NewThread(1, table_name, csv_filename, "read", "open")
                             EXCEPT !.sent = 1]>>
           /\ tables = (SqlFold(table_name) :> <<>>)
           /\ files = (csv_filename :> <<CsvHeader>>)
           /\ last_start = StartRecord(1, reactor_no, sensor_name, Some(table_name),
                                       FALSE, "ok", "created", 1)

ParseNext ==
    \/ \E line \in ParseLines : ReadAndParse(1, TRUE, line)
    \/ \E line \in ParseLines : MainReadAndParse(1, TRUE, line)

ParseSpec == ParseInit /\ [][ParseNext]_vars

(***************************************************************************)
(* Properties.                                                             *)
(***************************************************************************)
\* thread t takes the step that leaves place pc, and not by Ctrl+C
Leaves(t, pc) ==
    /\ threads[t].pc = pc
    /\ threads'[t].pc # pc
    /\ threads'[t].err # "KeyboardInterrupt"

\* the append log gains exactly the line of thread t's reading, and nothing
\* else in the file system changes
GainsLineOf(t) ==
    LET f == threads[t].csv_filename
        before == IF f \in DOMAIN files THEN files[f] ELSE <<>>
    IN  /\ DOMAIN files' = DOMAIN files \cup {f}
        /\ files'[f] = before \o <<CsvRow(The(threads[t].data))>>
        /\ \A g \in DOMAIN files \ {f} : files'[g] = files[g]

\* C1: dual-write isolation.  When the database write of a reading fails,
\* the thread goes on to the append-log write of the same reading (the
\* failure does not leave the iteration), and the append-log write either
\* fails itself, leaving the files as they are, or adds exactly one line,
\* the line of that reading, to the run's file.
DualWriteIsolation ==
    [][\A t \in Threads :
        /\ (Leaves(t, "db") /\ tables' = tables)
              => /\ threads'[t].pc = "csv"
                 /\ threads'[t].data = threads[t].data
                 /\ threads'[t].data # None
        /\ Leaves(t, "csv") => (files' = files \/ GainsLineOf(t))]_vars

\* C1 witness: a reading whose database write failed (the table is still
\* empty) is the last line of the append log.
DualWriteWitness ==
    \E t \in Threads :
        /\ threads[t].pc = "loop"
        /\ threads[t].db_success = Some(FALSE)
        /\ threads[t].data # None
        /\ tables[SqlFold(threads[t].table_name)] = <<>>
        /\ Len(files[threads[t].csv_filename]) = 2
        /\ Last(files[threads[t].csv_filename]) = CsvRow(The(threads[t].data))

\* C2: on every path out of the loop the channel opened for the run is
\* closed once the thread has exited.
ChannelClosedOnExit ==
    \A t \in Threads : threads[t].pc = "done" => threads[t].ser # "open"

\* C3: a thread that was alive at a stop request sends no further command,
\* whatever start and stop requests follow.
NoCommandAfterStop ==
    [][\A t \in Threads :
        t \in stop_seen => threads'[t].sent = threads[t].sent]_vars

\* C4: a failed database write or a failed append-log write does not end the
\* run: the thread goes on (to the append-log write, then to the sleep and
\* the loop test) with the channel open, no exception recorded and the run
\* flag as it was.
SinkFailureKeepsRunning ==
    [][\A t \in Threads :
        /\ (Leaves(t, "db") /\ tables' = tables)
              => /\ threads'[t].pc = "csv"
                 /\ threads'[t].err = "" /\ threads'[t].ser = "open"
                 /\ running' = running
        /\ (Leaves(t, "csv") /\ files' = files)
              => /\ threads'[t].pc = "loop"
                 /\ threads'[t].err = "" /\ threads'[t].ser = "open"
                 /\ running' = running]_vars

\* C4 witness: both writes of a reading failed (no row, no line) and the
\* thread is back at the loop test of a run that is still on.
SinkFailureWitness ==
    \E t \in Threads :
        /\ threads[t].pc = "loop"
        /\ threads[t].data # None
        /\ threads[t].db_success = Some(FALSE)
        /\ tables[SqlFold(threads[t].table_name)] = <<>>
        /\ files[threads[t].csv_filename] = <<CsvHeader>>
        /\ threads[t].ser = "open"
        /\ running

\* a reply that is a reading line: ASCII text of at least six tokens, of
\* which the second to the sixth are numbers
IsReadingLine(raw) ==
    LET parts == SelectSeq(raw, LAMBDA x : x \notin Whitespace)
    IN  /\ \A i \in 1..Len(raw) : raw[i] # BadByte
        /\ Len(parts) >= 6
        /\ \A i \in 2..6 : parts[i] \in DOMAIN FloatTable

\* what a recoverable reply leaves behind: the thread at the sleep and loop
\* test, no reading, no exception, channel open, both sinks and the run flag
\* untouched
SkipsIteration(t) ==
    /\ threads'[t].pc = "loop"
    /\ threads'[t].data = None
    /\ threads'[t].err = ""
    /\ threads'[t].ser = "open"
    /\ tables' = tables
    /\ files' = files
    /\ running' = running

\* C5: every reply that is not a reading line is skipped and the run goes on.
MalformedReplyRecoverable ==
    [][\A t \in Threads :
        (/\ Leaves(t, "read")
         /\ threads'[t].raw # None
         /\ ~IsReadingLine(The(threads'[t].raw)))
            => SkipsIteration(t)]_vars

\* C6: a read that times out (readline returns nothing) is skipped and the
\* run goes on.
ReadTimeoutNotFatal ==
    [][\A t \in Threads :
        (Leaves(t, "read") /\ threads'[t].raw = Some(TimeoutReply))
            => SkipsIteration(t)]_vars

\* C6 witness: a thread whose read timed out waits at the loop test of a run
\* that is still on, with nothing logged.
ReadTimeoutWitness ==
    \E t \in Threads :
        /\ threads[t].raw = Some(TimeoutReply)
        /\ threads[t].pc = "loop"
        /\ threads[t].data = None
        /\ running
        /\ tables[SqlFold(threads[t].table_name)] = <<>>
        /\ files[threads[t].csv_filename] = <<CsvHeader>>

\* C7: a request whose channel cannot be opened never makes the state
\* Running.  A thread exists only for a request that set the run flag, so no
\* thread may end with SerialException on a channel that was never opened.
OpenFailureBlocksStart ==
    \A t \in Threads :
        ~(/\ threads[t].pc = "done"
          /\ threads[t].ser = "unopened"
          /\ threads[t].err = "SerialException")

\* the latest start request failed in one of its provisioning steps
ProvisioningFailed(start) == start.schema = "failed" \/ start.header = "failed"

\* C8: a start request of which a provisioning step fails starts nothing:
\* the state is and stays Idle, no thread is added, and no thread (hence no
\* command) belongs to the request.
ProvisioningFailureBlocksStart ==
    [][(last_start'.n # last_start.n /\ ProvisioningFailed(last_start'))
          => /\ ~running /\ ~running'
             /\ threads' = threads
             /\ last_start'.thread = 0
             /\ \A t \in DOMAIN threads' : threads'[t].req # last_start'.n]_vars

\* C8 witness: the table was created, the header file could not be, and
\* nothing runs.
ProvisioningFailureWitness ==
    /\ last_start.header = "failed"
    /\ last_start.table_name # None
    /\ SqlFold(The(last_start.table_name)) \in DOMAIN tables
    /\ files = <<>>
    /\ threads = <<>>
    /\ ~running

\* C9: a start request whose sensor name sanitizes to the empty string is
\* rejected: nothing is provisioned for it and no run is started.
EmptySanitizedNameRejected ==
    (/\ prog = "gui"
     /\ last_start.n > 0
     /\ sanitize_identifier(last_start.sensor) = <<>>)
        => /\ last_start.schema = "skipped"
           /\ last_start.header = "skipped"
           /\ last_start.thread = 0

\* a lower-case letter, a digit or the underscore
IsLowerAlnumOrUnderscore(c) == c \in LowerLetters \cup Digits \cup {"_"}

\* the name holds lower-case letters, digits and underscores only
IsSanitized(name) == \A i \in 1..Len(name) : IsLowerAlnumOrUnderscore(name[i])

\* C10: every name put into a CREATE TABLE statement (by a start request) or
\* into an INSERT statement (by a thread) is sanitized.
InterpolatedNamesSanitized ==
    /\ last_start.table_name # None => IsSanitized(The(last_start.table_name))
    /\ \A t \in Threads : IsSanitized(threads[t].table_name)


\* the latest start request came with the reactor number or the sensor name
\* left empty
FieldMissing(start) == start.reactor = <<>> \/ start.sensor = <<>>

\* C11: a start request of the GUI with an empty reactor number or sensor
\* name starts nothing: the state is not Running after it, no statement is
\* built, neither the database nor the files change, and no thread (hence
\* no command) is added.
MissingFieldBlocksStart ==
    [][(/\ prog = "gui"
        /\ last_start'.n # last_start.n
        /\ FieldMissing(last_start'))
          => /\ ~running'
             /\ threads' = threads
             /\ tables' = tables
             /\ files' = files
             /\ last_start'.table_name = None
             /\ last_start'.schema = "skipped"
             /\ last_start'.header = "skipped"
             /\ last_start'.thread = 0]_vars

\* C11 witness: a request with a reactor number and no sensor name was made,
\* and nothing exists or runs.
MissingFieldWitness ==
    /\ prog = "gui"
    /\ last_start.n > 0
    /\ last_start.reactor # <<>>
    /\ last_start.sensor = <<>>
    /\ ~running
    /\ threads = <<>>
    /\ tables = <<>>
    /\ files = <<>>


\* thread t is in its loop and this step's write or read raises a serial
\* error
TransportFault(t) ==
    /\ threads[t].pc \in {"loop", "read"}
    /\ threads[t].err = ""
    /\ threads'[t].err = "SerialException"

\* C12: a write or read on the port that raises inside the loop ends the
\* run: the thread is out of the loop in the same step without another
\* command, the state is not Running, the sinks are untouched, and a thread
\* that has ended never moves or sends again.
TransportFaultEndsRun ==
    [][\A t \in Threads :
          /\ TransportFault(t)
                => /\ threads'[t].pc = "done"
                   /\ threads'[t].sent = threads[t].sent
                   /\ ~running'
                   /\ tables' = tables
                   /\ files' = files
          /\ threads[t].pc = "done" => threads'[t] = threads[t]]_vars

\* C12 witness: a thread that had opened the port and sent a command ended
\* on a serial error, and the state is not Running.
TransportFaultWitness ==
    \E t \in Threads :
        /\ threads[t].pc = "done"
        /\ threads[t].err = "SerialException"
        /\ threads[t].sent >= 1
        /\ threads[t].raw = None
        /\ ~running


\* the lines of a file: the header first, and no header after it
HeaderOnce(lines) ==
    /\ Len(lines) >= 1
    /\ lines[1] = CsvHeader
    /\ \A i \in 2..Len(lines) : lines[i] # CsvHeader

\* C13: starting again for the same names provisions nothing twice: a start
\* request leaves every existing file and every existing table as it was
\* (no line lost or rewritten, no table emptied), adds at most the one file
\* of its own names, and every file holds the header exactly once, on its
\* first line; the statement for an existing table succeeds.
ProvisioningIdempotent ==
    [][/\ \A f \in DOMAIN files' : HeaderOnce(files'[f])
       /\ last_start'.n # last_start.n
            => /\ \A f \in DOMAIN files : f \in DOMAIN files' /\ files'[f] = files[f]
               /\ \A tb \in DOMAIN tables : tb \in DOMAIN tables' /\ tables'[tb] = tables[tb]
               /\ \A t \in Threads' \ Threads :
                     /\ DOMAIN files' \ DOMAIN files \subseteq {threads'[t].csv_filename}
                     /\ threads'[t].csv_filename \in DOMAIN files'
                     /\ SqlFold(threads'[t].table_name) \in DOMAIN tables'
               /\ Threads' = Threads => DOMAIN files' = DOMAIN files]_vars

\* C13 witness: a second start found the file of its names with a data line
\* in it and the table with a row, and started a thread on them.
ProvisioningIdempotentWitness ==
    /\ last_start.n >= 2
    /\ last_start.header = "exists"
    /\ last_start.thread # 0
    /\ \E f \in DOMAIN files :
          /\ f = threads[last_start.thread].csv_filename
          /\ Len(files[f]) >= 2
    /\ Len(tables[SqlFold(The(last_start.table_name))]) >= 1


\* the tokens of a line, as the blanks separate them
TokensOf(line) == SelectSeq(line, LAMBDA x : x \notin Whitespace)

\* a line parse_response has to reject: fewer than six tokens, or one of the
\* second to the sixth is not a number
IsRejectLine(line) ==
    \/ Len(TokensOf(line)) < 6
    \/ \E i \in 2..6 : i <= Len(TokensOf(line)) /\ TokensOf(line)[i] \notin DOMAIN FloatTable

\* C14: for every line of fewer than six tokens, or with a token among the
\* second to the sixth that is not a number, parse_response returns None and
\* raises nothing: the thread that read the line holds no reading, no
\* exception, and is back at the loop test.
ParseRejects ==
    \A t \in Threads :
        (threads[t].raw # None /\ IsRejectLine(The(threads[t].raw)))
            => /\ threads[t].data = None
               /\ threads[t].err = ""
               /\ threads[t].pc = "loop"

\* C14 witness: a line of seven tokens with a word where the fourth number
\* should be has been read and rejected without an exception.
ParseRejectsWitness ==
    \E t \in Threads :
        /\ threads[t].raw # None
        /\ Len(TokensOf(The(threads[t].raw))) = 7
        /\ TokensOf(The(threads[t].raw))[4] = "A"
        /\ \A i \in {2, 3, 5, 6} : TokensOf(The(threads[t].raw))[i] \in DOMAIN FloatTable
        /\ threads[t].data = None
        /\ threads[t].err = ""
        /\ threads[t].pc = "loop"


\* the reading a line of tokens stands for: the first token, the values of
\* the next five in their order, and the seventh token or the empty word
ReadingOfTokens(tokens) ==
    [command     |-> tokens[1],
     pressure    |-> FloatTable[tokens[2]],
     temperature |-> FloatTable[tokens[3]],
     x           |-> FloatTable[tokens[4]],
     y           |-> FloatTable[tokens[5]],
     air_value   |-> FloatTable[tokens[6]],
     air_status  |-> IF Len(tokens) >= 7 THEN tokens[7] ELSE ""]

ReadingFields ==
    {"command", "pressure", "temperature", "x", "y", "air_value", "air_status"}

\* C15: for every line of at least six tokens whose second to sixth tokens
\* are numbers, parse_response returns the reading made of the first token,
\* the five numbers in their order and the seventh token (the empty word
\* when there is none); and a thread about to write to a sink holds a
\* reading with all seven fields.
ParseAccepts ==
    \A t \in Threads :
        /\ (threads[t].raw # None /\ ~IsRejectLine(The(threads[t].raw)))
              => /\ threads[t].data = Some(ReadingOfTokens(TokensOf(The(threads[t].raw))))
                 /\ threads[t].err = ""
                 /\ threads[t].pc = "db"
        /\ threads[t].pc \in {"db", "csv"}
              => /\ threads[t].data # None
                 /\ DOMAIN The(threads[t].data) = ReadingFields

\* C15 witness: a line of six tokens, its two tilt numbers different, has
\* been parsed into a reading with an empty status, about to be written.
ParseAcceptsWitness ==
    \E t \in Threads :
        /\ threads[t].raw # None
        /\ Len(TokensOf(The(threads[t].raw))) = 6
        /\ threads[t].pc = "db"
        /\ threads[t].data # None
        /\ The(threads[t].data).x # The(threads[t].data).y
        /\ The(threads[t].data).air_status = ""
        /\ The(threads[t].data).command = "A"


\* C16: at no time are two acquisition threads alive.
AtMostOneWorker ==
    \A t1, t2 \in Threads : Alive(t1) /\ Alive(t2) => t1 = t2


\* the reading of the reply thread t read in its current iteration
AcquiredBy(t) == ReadingOfTokens(TokensOf(The(threads[t].raw)))

SinksNamedFromOneTarget ==
    [][\A t \in Threads' :
          /\ threads'[t].csv_filename = threads'[t].table_name \o <<".", "c", "s", "v">>
          /\ t \in Threads
                => /\ threads'[t].table_name = threads[t].table_name
                   /\ threads'[t].csv_filename = threads[t].csv_filename]_vars


\* C19: a start request made while the run flag is set changes nothing:
\* the fields are not checked, no name is built, the database and the files
\* are untouched, no thread is added, and the threads there keep their
\* names and everything else.
StartWhileRunningIgnored ==
    [][(last_start'.n # last_start.n /\ running)
          => /\ running'
             /\ threads' = threads
             /\ tables' = tables
             /\ files' = files
             /\ last_start'.was_running
             /\ last_start'.table_name = None
             /\ last_start'.schema = "skipped"
             /\ last_start'.header = "skipped"
             /\ last_start'.thread = 0]_vars

\* C19 witness: a start request came while a thread was in its loop with
\* the flag set, and was ignored.
StartWhileRunningWitness ==
    /\ last_start.n >= 2
    /\ last_start.was_running
    /\ running
    /\ Len(threads) = 1
    /\ Alive(1)
    /\ threads[1].sent >= 1


\* C20: at every moment of a run, rows appended to the file <= calls of the
\* database write <= replies parsed into a reading <= commands sent; and a
\* database write that failed is not made again: while a thread holds the
\* outcome of the write of its current reading, writes made = readings
\* parsed.
TalliesOrdered ==
    \A t \in Threads :
        /\ threads[t].csv_rows <= threads[t].db_tries
        /\ threads[t].db_tries <= threads[t].parsed
        /\ threads[t].parsed <= threads[t].sent
        /\ threads[t].db_success # None => threads[t].db_tries = threads[t].parsed

\* C20 witness: a thread has sent two commands, parsed one reading, tried
\* the database once without success, and appended no row.
TalliesOrderedWitness ==
    \E t \in Threads :
        /\ threads[t].sent = 2
        /\ threads[t].parsed = 1
        /\ threads[t].db_tries = 1
        /\ threads[t].csv_rows = 0
        /\ threads[t].db_success = Some(FALSE)
        /\ threads[t].pc = "loop"

=============================================================================
